---- MODULE Spec2Model ----
(***************************************************************************)
(* improvebot/review.ts: the skill review run.                             *)
(*                                                                         *)
(* main discovers the skill directories, truncates them to --limit, starts *)
(* the client and, one skill after the other, runs reviewSkill (create a   *)
(* session, subscribe, send the prompt, wait for session.idle, destroy)    *)
(* and then prints the report and files it (or previews it).               *)
(*                                                                         *)
(* Strings whose characters the code inspects (argv tokens, directory      *)
(* entry names) are sequences of one-character strings.  A JavaScript      *)
(* number is a record [kind, val] with kind "num", "NaN" or "Infinity".    *)
(***************************************************************************)
EXTENDS Integers, Sequences, FiniteSets, TLC

VARIABLES
    args,        \* process.argv.slice(2)
    fs,          \* what fs.readdir("./skills") does: [ok, entries]
    env,         \* process.env: [GH_PAT, GH_TOKEN], <<>> an unset variable, <<v>> one set to v
    pc,          \* the await at which main (or the reviewSkill it awaits) is suspended
    skills,      \* main's local `skills`
    idx,         \* position of the for..of loop in skills (0 before, Len+1 after)
    live,        \* sessions created and not released, named by the loop position that created them
    registered,  \* reviewSkill's session has the handler of session.on
    content,     \* the executor's local `content`
    done,        \* the promise `done`: [settled, value]
    report,      \* reviewSkill's local `report`
    log,         \* events the session of the running reviewSkill has emitted, in emission order
    handled,     \* events the handler has been called with, in call order
    trace        \* the run's external calls and output, in order

vars == <<args, fs, env, pc, skills, idx, live, registered, content, done, report,
          log, handled, trace>>

---------------------------------------------------------------------------
(* Bounds *)

\* events one session emits during its review
MaxEvents == 3

---------------------------------------------------------------------------
(* Inputs *)

DryRunFlag == <<"-", "-", "d", "r", "y", "-", "r", "u", "n">>
LimitFlag  == <<"-", "-", "l", "i", "m", "i", "t">>

\* command lines the run is started with
ArgVectors ==
    { <<>>,
      <<DryRunFlag>>,
      <<LimitFlag, <<"0">>>>,
      <<LimitFlag, <<"1">>>>,
      <<LimitFlag, <<"2">>>>,
      <<LimitFlag, <<"1", "x">>>>,
      <<LimitFlag, <<"-", "1">>>>,
      <<LimitFlag, <<"a", "b", "c">>>>,
      <<LimitFlag>>,
      <<LimitFlag, <<"1">>, DryRunFlag>>,
      <<DryRunFlag, LimitFlag, <<"3">>>> }

Dir(n)  == [name |-> n, isDirectory |-> TRUE]
File(n) == [name |-> n, isDirectory |-> FALSE]

N_git    == <<".", "g", "i", "t">>
N_env    == <<".", "e", "n", "v">>
N_alpha  == <<"a", "l", "p", "h", "a">>
N_beta   == <<"b", "e", "t", "a">>
N_readme == <<"R", "E", "A", "D", "M", "E", ".", "m", "d">>
N_v1     == <<"v", ".", "1">>

\* contents of ./skills as fs.readdir lists them
Listings ==
    { <<>>,
      <<Dir(N_git), Dir(N_alpha), Dir(N_beta)>>,
      <<Dir(N_beta), File(N_readme), Dir(N_alpha)>>,
      <<Dir(N_alpha), File(N_env)>>,
      <<Dir(N_git), File(N_readme)>>,
      <<File(N_env), Dir(N_v1), Dir(N_git)>> }

\* values of GH_PAT and of GH_TOKEN in the environment of the run
PatValues   == {<<>>, <<"">>, <<"pat">>}
TokenValues == {<<>>, <<"">>, <<"tok">>}

\* texts an assistant.message carries
Contents == {"r1", "r2"}

\* event.data.content is optional: <<>> is an absent content, <<c>> a present one
SessionEvents ==
    { [type |-> "tool.execution_start", content |-> <<>>],
      [type |-> "tool.execution_end", content |-> <<>>],
      [type |-> "session.idle", content |-> <<>>],
      [type |-> "assistant.message", content |-> <<>>] }
    \cup { [type |-> "assistant.message", content |-> <<c>>] : c \in Contents }

---------------------------------------------------------------------------
(* JavaScript numbers and library functions *)

Num(n)   == [kind |-> "num", val |-> n]
NaN      == [kind |-> "NaN", val |-> 0]
Infinity == [kind |-> "Infinity", val |-> 0]

Digits == {"0", "1", "2", "3", "4", "5", "6", "7", "8", "9"}

DigitVal(c) ==
    CASE c = "0" -> 0 [] c = "1" -> 1 [] c = "2" -> 2 [] c = "3" -> 3
      [] c = "4" -> 4 [] c = "5" -> 5 [] c = "6" -> 6 [] c = "7" -> 7
      [] c = "8" -> 8 [] c = "9" -> 9

\* the value of the longest run of digits of s that starts at position i,
\* acc being the value read so far
RECURSIVE ParseDigits(_, _, _)
ParseDigits(s, i, acc) ==
    IF i <= Len(s) /\ s[i] \in Digits
    THEN ParseDigits(s, i + 1, acc * 10 + DigitVal(s[i]))
    ELSE acc

\* parseInt(s, 10): an optional sign, then the longest run of digits; NaN
\* without a digit.  s = <<>> stands for undefined (and for "").  The tokens
\* of ArgVectors carry no white space, which parseInt would skip.
parseInt(s) ==
    LET signed == Len(s) > 0 /\ s[1] \in {"-", "+"}
        first  == IF signed THEN 2 ELSE 1
    IN  IF first <= Len(s) /\ s[first] \in Digits
        THEN IF signed /\ s[1] = "-"
             THEN Num(0 - ParseDigits(s, first, 0))
             ELSE Num(ParseDigits(s, first, 0))
        ELSE NaN

\* Array.prototype.includes
includes(a, x) == \E i \in 1..Len(a) : a[i] = x

\* Array.prototype.indexOf, 0-based, -1 when absent
indexOf(a, x) ==
    IF includes(a, x)
    THEN (CHOOSE i \in 1..Len(a) : a[i] = x /\ \A j \in 1..(i - 1) : a[j] # x) - 1
    ELSE -1

\* a[i] for a 0-based i; <<>> (undefined) outside the array
ArgAt(a, i) == IF i >= 0 /\ i < Len(a) THEN a[i + 1] ELSE <<>>

\* x < Infinity
LessThanInfinity(x) == x.kind = "num"

\* slice that keeps one element more than asked for
slice_mut(a, end) ==
    LET n == Len(a)
        e == IF end < 0 THEN (IF n + end < 0 THEN 0 ELSE n + end)
             ELSE (IF end >= n THEN n ELSE end + 1)
    IN  SubSeq(a, 1, e)

\* Array.prototype.slice(0, end) for an integer end
slice(a, end) ==
    LET n == Len(a)
        e == IF end < 0 THEN (IF n + end < 0 THEN 0 ELSE n + end)
             ELSE (IF end > n THEN n ELSE end)
    IN  SubSeq(a, 1, e)

\* event.data.content ?? ""
Nullish(c) == IF c = <<>> THEN "" ELSE c[1]

---------------------------------------------------------------------------
(* Module-level constants of review.ts *)

\* --dry-run recognised as the first argument only
dryRun_mut == Len(args) > 0 /\ args[1] = DryRunFlag

dryRun == includes(args, DryRunFlag)

limitIndex == indexOf(args, LimitFlag)

limit == IF limitIndex # -1 THEN parseInt(ArgAt(args, limitIndex + 1)) ELSE Infinity

---------------------------------------------------------------------------
(* discoverSkills *)

startsWithDot(name) == Len(name) > 0 /\ name[1] = "."

\* a filter that forgets the hidden entries
IsSkillEntry_mut(e) == e.isDirectory

IsSkillEntry(e) == e.isDirectory /\ ~startsWithDot(e.name)

RECURSIVE MapName(_)
MapName(es) == IF es = <<>> THEN <<>> ELSE <<es[1].name>> \o MapName(Tail(es))

discoverSkills(entries) == MapName(SelectSeq(entries, IsSkillEntry))

\* `skills` after the truncation of main
Truncate(found) == IF LessThanInfinity(limit) THEN slice(found, limit.val) ELSE found

---------------------------------------------------------------------------
(* The handler of session.on and the promise `done` *)

\* a handler that starts the text afresh when a tool call begins
OnEventContent_tool(c, e) ==
    IF e.type = "assistant.message" THEN Nullish(e.content)
    ELSE IF e.type = "tool.execution_start" THEN "" ELSE c

\* a handler that keeps the first text it was given
OnEventContent_mut(c, e) ==
    IF e.type = "assistant.message" /\ c = "" THEN Nullish(e.content) ELSE c

\* `content` after the handler has run on event e
OnEventContent(c, e) ==
    IF e.type = "assistant.message" THEN Nullish(e.content) ELSE c

\* a handler that also resolves on an assistant.message
OnEventResolves_mut(e) == e.type \in {"session.idle", "assistant.message"}

\* the handler calls resolve on event e
OnEventResolves(e) == e.type = "session.idle"

\* a result cell that every resolve overwrites
Resolve_mut(p, v) == [settled |-> TRUE, value |-> v]

\* resolve(v) on promise p: a settled promise keeps its value
Resolve(p, v) == IF p.settled THEN p ELSE [settled |-> TRUE, value |-> v]

Pending == [settled |-> FALSE, value |-> ""]

---------------------------------------------------------------------------
(* The run's external calls and output *)

\* token: the GH_TOKEN="..." prefix of a `gh issue create` command line,
\* <<>> when the command carries none
Entry(op, skill, text, ok) ==
    [op |-> op, skill |-> skill, text |-> text, ok |-> ok, token |-> <<>>]

\* JavaScript truthiness of an optional string
Truthy(v) == v # <<>> /\ v[1] # ""

\* a || b
Or(a, b) == IF Truthy(a) THEN a ELSE b

\* a lookup that prefers GH_TOKEN
ghToken_mut == Or(env.GH_TOKEN, env.GH_PAT)

\* process.env.GH_PAT || process.env.GH_TOKEN
ghToken == Or(env.GH_PAT, env.GH_TOKEN)

\* ghToken ? `GH_TOKEN="${ghToken}" ` : ""
tokenPrefix == IF Truthy(ghToken) THEN ghToken ELSE <<>>

\* execSync of the gh command line, which exits with success or fails
GhCall(skillName, rep, ghOk) ==
    [Entry("gh issue create", skillName, rep, ghOk) EXCEPT !.token = tokenPrefix]

\* createGitHubIssue without its try/catch
createGitHubIssue_mut(skillName, rep, ghOk) ==
    [ out   |-> IF ghOk
                THEN << GhCall(skillName, rep, TRUE),
                        Entry("[Issue] Created issue", skillName, "", TRUE) >>
                ELSE << GhCall(skillName, rep, FALSE) >>,
      threw |-> ~ghOk ]

\* createGitHubIssue(skillName, report) when `gh issue create` exits with
\* success (ghOk) or fails: what it calls and logs, and whether it throws
createGitHubIssue(skillName, rep, ghOk) ==
    [ out   |-> << GhCall(skillName, rep, ghOk),
                   IF ghOk THEN Entry("[Issue] Created issue", skillName, "", TRUE)
                           ELSE Entry("[Error] Failed to create issue", skillName, "", FALSE) >>,
      threw |-> FALSE ]

---------------------------------------------------------------------------
(* main and reviewSkill *)

\* the program before main has run
StartState ==
    /\ pc = "discover"
    /\ skills = <<>>
    /\ idx = 0
    /\ live = {}
    /\ registered = FALSE
    /\ content = ""
    /\ done = Pending
    /\ report = ""
    /\ log = <<>>
    /\ handled = <<>>
    /\ trace = <<>>

ReadDirFails == [ok |-> FALSE, entries |-> <<>>]

\* any command line and skills directory, no credential in the environment
Init ==
    /\ args \in ArgVectors
    /\ fs \in {[ok |-> TRUE, entries |-> l] : l \in Listings} \cup {ReadDirFails}
    /\ env = [GH_PAT |-> <<>>, GH_TOKEN |-> <<>>]
    /\ StartState

\* any environment, for a run without arguments or with --dry-run
InitEnv ==
    /\ args \in {<<>>, <<DryRunFlag>>}
    /\ fs \in {[ok |-> TRUE, entries |-> <<Dir(N_git), Dir(N_alpha), Dir(N_beta)>>],
               ReadDirFails}
    /\ env \in [GH_PAT : PatValues, GH_TOKEN : TokenValues]
    /\ StartState

\* the locals of a reviewSkill invocation before it has run
FreshLocals ==
    /\ registered' = FALSE
    /\ content' = ""
    /\ done' = Pending
    /\ report' = ""
    /\ log' = <<>>
    /\ handled' = <<>>

\* a main that ends after the loop without stopping the client
EnterIteration_mut(i, tr) ==
    /\ idx' = i
    /\ IF i <= Len(skills)
       THEN /\ pc' = "createSession"
            /\ trace' = tr \o <<Entry("reviewSkill", skills[i], "", TRUE)>>
       ELSE /\ pc' = "done"
            /\ trace' = tr \o <<Entry("Done.", <<>>, "", TRUE)>>
    /\ FreshLocals

\* main reaches position i of the loop with tr written so far: it calls
\* reviewSkill, which calls createSession, or leaves the loop and calls
\* client.stop
EnterIteration(i, tr) ==
    /\ idx' = i
    /\ IF i <= Len(skills)
       THEN /\ pc' = "createSession"
            /\ trace' = tr \o <<Entry("reviewSkill", skills[i], "", TRUE)>>
       ELSE /\ pc' = "stop"
            /\ trace' = tr \o <<Entry("client.stop", <<>>, "", TRUE)>>
    /\ FreshLocals

\* a catch clause that tries the same skill again
MainCatch_retry(tr) ==
    EnterIteration(idx,
        tr \o <<Entry("[Error] Failed to review skill", skills[idx], "", FALSE)>>)

\* a loop body without the catch clause: main rejects
MainCatch_mut(tr) ==
    /\ idx' = idx
    /\ pc' = "rejected"
    /\ trace' = tr
    /\ FreshLocals

\* the catch clause of the loop body, then the next iteration
MainCatch(tr) ==
    EnterIteration(idx + 1,
        tr \o <<Entry("[Error] Failed to review skill", skills[idx], "", FALSE)>>)

\* discoverSkills resolves: truncate, construct the client, call client.start
DiscoverReturn ==
    /\ pc = "discover"
    /\ fs.ok
    /\ skills' = Truncate(discoverSkills(fs.entries))
    /\ pc' = "start"
    /\ trace' = trace \o <<Entry("client.start", <<>>, "", TRUE)>>
    /\ UNCHANGED <<args, fs, env, idx, live, registered, content, done, report, log, handled>>

\* a main that takes a failed discovery for an empty skills directory
DiscoverThrow_mut ==
    /\ pc = "discover"
    /\ ~fs.ok
    /\ pc' = "start"
    /\ trace' = trace \o <<Entry("client.start", <<>>, "", TRUE)>>
    /\ UNCHANGED <<args, fs, env, skills, idx, live, registered, content, done, report,
                   log, handled>>

\* fs.readdir rejects: main rejects
DiscoverThrow ==
    /\ pc = "discover"
    /\ ~fs.ok
    /\ pc' = "rejected"
    /\ UNCHANGED <<args, fs, env, skills, idx, live, registered, content, done, report,
                   log, handled, trace>>

ClientStartReturn ==
    /\ pc = "start"
    /\ EnterIteration(1, trace)
    /\ UNCHANGED <<args, fs, env, skills, live>>

ClientStartThrow ==
    /\ pc = "start"
    /\ pc' = "rejected"
    /\ UNCHANGED <<args, fs, env, skills, idx, live, registered, content, done, report,
                   log, handled, trace>>

\* reviewSkill calling session.send without having subscribed
CreateSessionReturn_mut ==
    /\ pc = "createSession"
    /\ live' = live \cup {idx}
    /\ content' = ""
    /\ registered' = FALSE
    /\ pc' = "send"
    /\ trace' = trace \o << Entry("createSession", skills[idx], "", TRUE),
                            Entry("session.send", skills[idx], "", TRUE) >>
    /\ UNCHANGED <<args, fs, env, skills, idx, done, report, log, handled>>

\* createSession resolves: the executor of `done` subscribes the handler,
\* then session.send is called
CreateSessionReturn ==
    /\ pc = "createSession"
    /\ live' = live \cup {idx}
    /\ content' = ""
    /\ registered' = TRUE
    /\ pc' = "send"
    /\ trace' = trace \o << Entry("createSession", skills[idx], "", TRUE),
                            Entry("session.send", skills[idx], "", TRUE) >>
    /\ UNCHANGED <<args, fs, env, skills, idx, done, report, log, handled>>

CreateSessionThrow ==
    /\ pc = "createSession"
    /\ MainCatch(trace \o <<Entry("createSession", skills[idx], "", FALSE)>>)
    /\ UNCHANGED <<args, fs, env, skills, live>>

\* the session of the running reviewSkill emits event e; the handler, if
\* subscribed, runs on it.  A session emits from the call of session.send
\* until its destroy has completed.  Events of a session whose reviewSkill
\* has already rejected reach a handler whose `done` nobody awaits: they
\* change nothing the run observes and are not steps of the model.
EmitEvent(e) ==
    /\ pc \in {"send", "awaitDone", "destroy"}
    /\ Len(log) < MaxEvents
    /\ log' = Append(log, e)
    /\ IF registered
       THEN /\ handled' = Append(handled, e)
            /\ content' = OnEventContent(content, e)
            /\ done' = IF OnEventResolves(e) THEN Resolve(done, content') ELSE done
       ELSE UNCHANGED <<handled, content, done>>
    /\ UNCHANGED <<args, fs, env, pc, skills, idx, live, registered, report, trace>>

\* session.send resolves: reviewSkill awaits `done`
SendReturn ==
    /\ pc = "send"
    /\ pc' = "awaitDone"
    /\ UNCHANGED <<args, fs, env, skills, idx, live, registered, content, done, report,
                   log, handled, trace>>

\* session.send rejects: reviewSkill rejects, the session is left as it is
SendThrow ==
    /\ pc = "send"
    /\ MainCatch(trace \o <<Entry("session.send rejected", skills[idx], "", FALSE)>>)
    /\ UNCHANGED <<args, fs, env, skills, live>>

\* reviewSkill giving up the wait for `done` (a timeout)
AwaitDone_mut ==
    /\ pc = "awaitDone"
    /\ report' = done.value
    /\ pc' = "destroy"
    /\ trace' = trace \o <<Entry("session.destroy", skills[idx], "", TRUE)>>
    /\ UNCHANGED <<args, fs, env, skills, idx, live, registered, content, done, log, handled>>

\* `done` is settled: report is its value and session.destroy is called
AwaitDone ==
    /\ pc = "awaitDone"
    /\ done.settled
    /\ report' = done.value
    /\ pc' = "destroy"
    /\ trace' = trace \o <<Entry("session.destroy", skills[idx], "", TRUE)>>
    /\ UNCHANGED <<args, fs, env, skills, idx, live, registered, content, done, log, handled>>

\* a main that files the handler's current text instead of the report
DestroyReturn_mut ==
    /\ pc = "destroy"
    /\ live' = live \ {idx}
    /\ LET block == trace \o <<Entry("REPORT", skills[idx], report, TRUE)>>
       IN  IF dryRun
           THEN EnterIteration(idx + 1,
                    block \o <<Entry("[dry-run] Would create issue", skills[idx], "", TRUE)>>)
           ELSE \E ghOk \in BOOLEAN :
                    LET r == createGitHubIssue(skills[idx], content, ghOk)
                    IN  IF r.threw
                        THEN MainCatch(block \o r.out)
                        ELSE EnterIteration(idx + 1, block \o r.out)
    /\ UNCHANGED <<args, fs, env, skills>>

\* session.destroy resolves: reviewSkill returns report; main prints the
\* report block and previews or files the issue, then goes on with the loop
DestroyReturn ==
    /\ pc = "destroy"
    /\ live' = live \ {idx}
    /\ LET block == trace \o <<Entry("REPORT", skills[idx], report, TRUE)>>
       IN  IF dryRun
           THEN EnterIteration(idx + 1,
                    block \o <<Entry("[dry-run] Would create issue", skills[idx], "", TRUE)>>)
           ELSE \E ghOk \in BOOLEAN :
                    LET r == createGitHubIssue(skills[idx], report, ghOk)
                    IN  IF r.threw
                        THEN MainCatch(block \o r.out)
                        ELSE EnterIteration(idx + 1, block \o r.out)
    /\ UNCHANGED <<args, fs, env, skills>>

\* a reviewSkill that swallows the failure of session.destroy and returns
\* its report
DestroyThrow_mut ==
    /\ pc = "destroy"
    /\ \E released \in BOOLEAN : live' = IF released THEN live \ {idx} ELSE live
    /\ LET block == trace \o << Entry("session.destroy rejected", skills[idx], "", FALSE),
                                Entry("REPORT", skills[idx], report, TRUE) >>
       IN  IF dryRun
           THEN EnterIteration(idx + 1,
                    block \o <<Entry("[dry-run] Would create issue", skills[idx], "", TRUE)>>)
           ELSE \E ghOk \in BOOLEAN :
                    EnterIteration(idx + 1,
                        block \o createGitHubIssue(skills[idx], report, ghOk).out)
    /\ UNCHANGED <<args, fs, env, skills>>

\* session.destroy rejects, having released the session or not: reviewSkill
\* rejects
DestroyThrow ==
    /\ pc = "destroy"
    /\ \E released \in BOOLEAN : live' = IF released THEN live \ {idx} ELSE live
    /\ MainCatch(trace \o <<Entry("session.destroy rejected", skills[idx], "", FALSE)>>)
    /\ UNCHANGED <<args, fs, env, skills>>

ClientStopReturn ==
    /\ pc = "stop"
    /\ pc' = "done"
    /\ trace' = trace \o <<Entry("Done.", <<>>, "", TRUE)>>
    /\ UNCHANGED <<args, fs, env, skills, idx, live, registered, content, done, report,
                   log, handled>>

ClientStopThrow ==
    /\ pc = "stop"
    /\ pc' = "rejected"
    /\ UNCHANGED <<args, fs, env, skills, idx, live, registered, content, done, report,
                   log, handled, trace>>

Next ==
    \/ DiscoverReturn
    \/ DiscoverThrow
    \/ ClientStartReturn
    \/ ClientStartThrow
    \/ CreateSessionReturn
    \/ CreateSessionThrow
    \/ \E e \in SessionEvents : EmitEvent(e)
    \/ SendReturn
    \/ SendThrow
    \/ AwaitDone
    \/ DestroyReturn
    \/ DestroyThrow
    \/ ClientStopReturn
    \/ ClientStopThrow

Spec == Init /\ [][Next]_vars

SpecEnv == InitEnv /\ [][Next]_vars

\* a few command lines over a directory with two skills, with none, or unreadable
InitLive ==
    /\ args \in {<<>>, <<DryRunFlag>>, <<LimitFlag, <<"1">>>>}
    /\ fs \in {[ok |-> TRUE, entries |-> <<Dir(N_beta), File(N_readme), Dir(N_alpha)>>],
               [ok |-> TRUE, entries |-> <<>>],
               ReadDirFails}
    /\ env = [GH_PAT |-> <<>>, GH_TOKEN |-> <<>>]
    /\ StartState

\* every awaited call completes, by resolving or by rejecting, and a
\* continuation whose promise is settled runs
Fairness ==
    /\ WF_vars(DiscoverReturn \/ DiscoverThrow)
    /\ WF_vars(ClientStartReturn \/ ClientStartThrow)
    /\ WF_vars(CreateSessionReturn \/ CreateSessionThrow)
    /\ WF_vars(SendReturn \/ SendThrow)
    /\ WF_vars(AwaitDone)
    /\ WF_vars(DestroyReturn \/ DestroyThrow)
    /\ WF_vars(ClientStopReturn \/ ClientStopThrow)

LiveSpec == InitLive /\ [][Next]_vars /\ Fairness

---------------------------------------------------------------------------
(* Reading the event log and the trace *)

Idles(l) == {i \in 1..Len(l) : l[i].type = "session.idle"}

Messages(l) == {i \in 1..Len(l) : l[i].type = "assistant.message"}

Last(S) == CHOOSE i \in S : \A j \in S : j <= i

First(S) == CHOOSE i \in S : \A j \in S : i <= j

\* the text of the last assistant.message of l, empty when it carries no
\* content or when l has no assistant.message
LastMessageText(l) ==
    IF Messages(l) = {} THEN ""
    ELSE LET m == l[Last(Messages(l))]
         IN  IF Len(m.content) = 0 THEN "" ELSE m.content[1]

\* l has one session.idle and it is the last event
EndsInOneIdle(l) == Idles(l) = {Len(l)} /\ Len(l) > 0

\* the events of l before its first session.idle
BeforeFirstIdle(l) == SubSeq(l, 1, First(Idles(l)) - 1)

HasEntry(op, skill) == \E i \in 1..Len(trace) : trace[i].op = op /\ trace[i].skill = skill

IsReviewEntry(e) == e.op = "reviewSkill"

RECURSIVE MapSkill(_)
MapSkill(es) == IF es = <<>> THEN <<>> ELSE <<es[1].skill>> \o MapSkill(Tail(es))

\* the skills reviewSkill has been invoked for, in order
Attempted == MapSkill(SelectSeq(trace, IsReviewEntry))

InReview == pc \in {"send", "awaitDone", "destroy"}

---------------------------------------------------------------------------
(* Claims *)

\* C1: when the events delivered to the session are a sequence with a single
\* session.idle, its last event, `done` is settled with the text of the last
\* assistant.message before it (empty text for an absent content or when
\* there was no assistant.message), and that text is the report reviewSkill
\* holds when it destroys the session and returns; the send call may still
\* be pending or may have completed.
C1_LastMessageBeforeIdle ==
    (InReview /\ EndsInOneIdle(log)) =>
        /\ done.settled
        /\ done.value = LastMessageText(log)
        /\ (pc = "destroy" => report = LastMessageText(log))

C1_Witness ==
    /\ pc = "destroy"
    /\ Len(log) = 3
    /\ log[1] = [type |-> "assistant.message", content |-> <<"r1">>]
    /\ log[2] = [type |-> "assistant.message", content |-> <<"r2">>]
    /\ log[3].type = "session.idle"
    /\ report = "r2"

\* C2: `done` is settled once: within one reviewSkill a settled `done` never
\* changes, and when the session has emitted two or more session.idle events
\* the value of `done`, and the report reviewSkill returns, is the text of
\* the last assistant.message before the first session.idle.
C2_SettledOnceAtFirstIdle ==
    /\ [][(done.settled /\ idx' = idx) => done' = done]_vars
    /\ [](InReview /\ Cardinality(Idles(log)) >= 2 =>
            /\ done.settled
            /\ done.value = LastMessageText(BeforeFirstIdle(log))
            /\ (pc = "destroy" => report = LastMessageText(BeforeFirstIdle(log))))

C2_Witness ==
    /\ pc = "destroy"
    /\ Len(log) = 3
    /\ log[1].type = "session.idle"
    /\ log[2] = [type |-> "assistant.message", content |-> <<"r1">>]
    /\ log[3].type = "session.idle"
    /\ report = ""

\* C3: every reviewSkill that has ended, by returning its report or by an
\* exception, and whose createSession succeeded has called session.destroy.
C3_DestroyedOnEveryPath ==
    \A i \in 1..Len(trace) :
        ( /\ trace[i].op \in {"REPORT", "[Error] Failed to review skill"}
          /\ \E j \in 1..i : /\ trace[j].op = "createSession"
                             /\ trace[j].skill = trace[i].skill
                             /\ trace[j].ok )
        => HasEntry("session.destroy", trace[i].skill)

\* C4: at most one session is created and not yet released.
C4_OneSessionAtATime == Cardinality(live) <= 1

\* C5: a failure of createSession, send, destroy or publishing for one skill
\* never ends the loop: main rejects only before the loop or after it, every
\* skill up to the loop's position has been attempted in order, and when the
\* loop is over every selected skill has been attempted.
C5_FailureIsolation ==
    /\ pc = "rejected" => (idx = 0 \/ idx = Len(skills) + 1)
    /\ idx \in 1..Len(skills) => Attempted = SubSeq(skills, 1, idx)
    /\ pc \in {"stop", "done"} => Attempted = skills

C5_Witness ==
    /\ pc = "done"
    /\ Len(skills) = 2
    /\ HasEntry("[Error] Failed to review skill", skills[1])
    /\ HasEntry("reviewSkill", skills[2])

\* C6: from the call of session.send on, the handler is subscribed, and every
\* event the session has emitted has been delivered to it.
C6_SubscribedBeforeSend ==
    /\ InReview => registered
    /\ handled = log

C6_Witness ==
    /\ pc = "send"
    /\ Len(log) >= 1
    /\ handled = log

\* C7: the handler sees the events in emission order, and reviewSkill calls
\* session.destroy, and so returns, only after the handler has seen a
\* session.idle.
C7_ReturnAfterIdle ==
    /\ Len(handled) <= Len(log)
    /\ handled = SubSeq(log, 1, Len(handled))
    /\ pc = "destroy" => Idles(handled) # {}
    /\ \A i \in 1..Len(trace) :
          (trace[i].op = "session.destroy" /\ idx \in 1..Len(skills)
             /\ trace[i].skill = skills[idx]) => Idles(handled) # {}

C7_Witness ==
    /\ pc = "destroy"
    /\ Len(handled) = 3
    /\ Idles(handled) = {3}

\* C8: in a run started with --dry-run no `gh issue create` is performed,
\* whatever the reports are.
C8_DryRunNeverPublishes ==
    (\E i \in 1..Len(args) : args[i] = DryRunFlag) =>
        \A j \in 1..Len(trace) : trace[j].op # "gh issue create"

C8_Witness ==
    /\ pc = "done"
    /\ \E i \in 1..Len(args) : args[i] = DryRunFlag
    /\ \E j \in 1..Len(trace) : trace[j].op = "REPORT" /\ trace[j].text = ""
    /\ \E j \in 1..Len(trace) : trace[j].op = "[dry-run] Would create issue"

\* C9: a failed `gh issue create` is followed by createGitHubIssue's own
\* error message and then by the next skill's review or the end of the
\* loop; the skill is not logged as a failed review and main does not reject
\* inside the loop.
C9_PublishFailureNotFatal ==
    /\ \A i \in 1..Len(trace) :
          (trace[i].op = "gh issue create" /\ ~trace[i].ok) =>
              /\ Len(trace) >= i + 2
              /\ trace[i + 1].op = "[Error] Failed to create issue"
              /\ trace[i + 1].skill = trace[i].skill
              /\ trace[i + 2].op \in {"reviewSkill", "client.stop"}
              /\ ~HasEntry("[Error] Failed to review skill", trace[i].skill)
    /\ (pc = "rejected" /\ idx \in 1..Len(skills)) =>
          \A i \in 1..Len(trace) : trace[i].op # "gh issue create"

C9_Witness ==
    /\ Len(skills) = 2
    /\ \E i \in 1..Len(trace) :
          /\ trace[i].op = "gh issue create"
          /\ ~trace[i].ok
          /\ trace[i].skill = skills[1]
    /\ HasEntry("reviewSkill", skills[2])

\* C10: with a limit N >= 0 the skills selected, and attempted when the loop
\* is over, are the first min(N, k) of the k discovered ones, in discovery
\* order; with no --limit they are all k.
ExpectedSelection ==
    LET found == discoverSkills(fs.entries)
        k     == Len(found)
    IN  IF limit.kind = "num"
        THEN SubSeq(found, 1, IF limit.val < k THEN limit.val ELSE k)
        ELSE found

C10_LimitSelectsFirstN ==
    ( /\ fs.ok
      /\ pc # "discover"
      /\ \/ limit.kind = "num" /\ limit.val >= 0
         \/ limitIndex = -1 )
    => /\ skills = ExpectedSelection
       /\ Len(Attempted) <= Len(ExpectedSelection)
       /\ Attempted = SubSeq(ExpectedSelection, 1, Len(Attempted))
       /\ pc \in {"stop", "done"} => Attempted = ExpectedSelection

C10_Witness ==
    /\ pc = "done"
    /\ limit = Num(1)
    /\ Len(discoverSkills(fs.entries)) = 2
    /\ Attempted = <<discoverSkills(fs.entries)[1]>>

\* s is an integer literal: an optional sign and then digits only
IsNumeral(s) ==
    LET first == IF Len(s) > 0 /\ s[1] \in {"-", "+"} THEN 2 ELSE 1
    IN  /\ first <= Len(s)
        /\ \A i \in first..Len(s) : s[i] \in Digits

\* C11: when --limit is absent, or is followed by a value that is not a
\* number or by nothing, no truncation is applied: the selected skills are
\* all the discovered ones, all of them are attempted when the loop is over,
\* and the run does not fail because of the limit.
C11_NonNumericLimitUnbounded ==
    ( /\ fs.ok
      /\ pc # "discover"
      /\ \/ limitIndex = -1
         \/ ~IsNumeral(ArgAt(args, limitIndex + 1)) )
    => /\ skills = discoverSkills(fs.entries)
       /\ pc \in {"stop", "done"} => Attempted = discoverSkills(fs.entries)

\* this step is the rejection of session.send
SendRejects ==
    /\ Len(trace') > Len(trace)
    /\ trace'[Len(trace) + 1].op = "session.send rejected"

\* a step that leaves the review where it is: reviewSkill neither returns
\* nor rejects, nothing is called or written, the loop does not move
ReviewStalls ==
    /\ pc' \in {"send", "awaitDone"}
    /\ idx' = idx
    /\ trace' = trace

\* C12 as stated: while the session of the running review has emitted no
\* session.idle, reviewSkill does not end, no later session is created,
\* nothing is reported or published and the run does not reach Done.
C12_NoIdleNoProgress ==
    [][(pc \in {"send", "awaitDone"} /\ Idles(log) = {}) => ReviewStalls]_vars

\* C12, amended: the same, unless session.send rejects.
C12_NoIdleNoProgressUnlessSendRejects ==
    [][(pc \in {"send", "awaitDone"} /\ Idles(log) = {}) =>
          (ReviewStalls \/ SendRejects)]_vars

C12_Witness ==
    /\ pc = "awaitDone"
    /\ Len(log) = MaxEvents
    /\ Idles(log) = {}
    /\ idx < Len(skills)
    /\ live = {idx}

\* C13: when fs.readdir of the skills directory fails, main rejects at once:
\* the client is not started, no session is created, no skill is reviewed
\* and nothing is reported or published.
C13_DiscoveryFailureFatal ==
    ~fs.ok =>
        /\ pc \in {"discover", "rejected"}
        /\ trace = <<>>
        /\ live = {}
        /\ skills = <<>>
        /\ idx = 0

C13_Witness ==
    /\ ~fs.ok
    /\ pc = "rejected"
    /\ trace = <<>>

\* how many times op has been performed for the skill
Count(op, skill) ==
    Cardinality({i \in 1..Len(trace) : trace[i].op = op /\ trace[i].skill = skill})

\* C14: for every selected skill reviewSkill is invoked at most once, and so
\* createSession is called at most once and the prompt is sent at most once,
\* whether the review succeeds or fails.
C14_NoRetry ==
    \A i \in 1..Len(skills) :
        /\ Count("reviewSkill", skills[i]) <= 1
        /\ Count("createSession", skills[i]) <= 1
        /\ Count("session.send", skills[i]) <= 1

C14_Witness ==
    /\ pc = "done"
    /\ Len(skills) = 2
    /\ HasEntry("session.send rejected", skills[1])
    /\ Count("createSession", skills[1]) = 1
    /\ Count("session.send", skills[1]) = 1
    /\ Count("createSession", skills[2]) = 1

\* positions of the entries of E that are directories with a name that does
\* not begin with a dot
Kept(E) == {i \in 1..Len(E) : E[i].isDirectory /\ E[i].name[1] # "."}

\* the j-th of them in listing order
NthKept(E, j) == CHOOSE i \in Kept(E) : Cardinality({k \in Kept(E) : k <= i}) = j

ExpectedSkills(E) == [j \in 1..Cardinality(Kept(E)) |-> E[NthKept(E, j)].name]

\* C15: discoverSkills returns the names of exactly those entries of the
\* listing that are directories and do not begin with a dot, in listing
\* order, and these are the skills main selects when no limit truncates them;
\* the listing .git, alpha, beta (all directories) gives alpha, beta.
C15_DiscoverFiltersHidden ==
    fs.ok =>
        /\ discoverSkills(fs.entries) = ExpectedSkills(fs.entries)
        /\ (pc # "discover" /\ ~LessThanInfinity(limit)) =>
               skills = ExpectedSkills(fs.entries)
        /\ fs.entries = <<Dir(N_git), Dir(N_alpha), Dir(N_beta)>> =>
               discoverSkills(fs.entries) = <<N_alpha, N_beta>>

C15_Witness ==
    /\ pc = "start"
    /\ fs.entries = <<Dir(N_git), Dir(N_alpha), Dir(N_beta)>>
    /\ skills = <<N_alpha, N_beta>>

ToolTypes == {"tool.execution_start", "tool.execution_end"}

NotToolEvent(e) == e.type \notin ToolTypes

\* this step is the emission of a tool event
ToolEventStep ==
    /\ Len(log') = Len(log) + 1
    /\ log'[Len(log')].type \in ToolTypes

\* C16: the handling of a tool.execution_start or tool.execution_end leaves
\* the working text, the promise `done` and the report as they were, and the
\* value `done` is settled with is the one the event sequence without its
\* tool events gives.
C16_ToolEventsChangeNothing ==
    /\ [][ToolEventStep => (content' = content /\ done' = done /\ report' = report)]_vars
    /\ []((InReview /\ done.settled /\ Idles(log) # {}) =>
            /\ done.value = LastMessageText(BeforeFirstIdle(SelectSeq(log, NotToolEvent)))
            /\ (pc = "destroy" => report = done.value))

C16_Witness ==
    /\ pc = "destroy"
    /\ Len(log) = 3
    /\ log[1] = [type |-> "assistant.message", content |-> <<"r1">>]
    /\ log[2].type = "tool.execution_start"
    /\ log[3].type = "session.idle"
    /\ report = "r1"

PublishOps == {"gh issue create", "[dry-run] Would create issue"}

\* this step is the return of reviewSkill with its report
ReviewReturns ==
    /\ pc = "destroy"
    /\ pc' # "destroy"
    /\ trace'[Len(trace) + 1].op # "session.destroy rejected"

\* C17: when reviewSkill returns, the next thing written is the report block
\* of that skill with the returned report as its text; a skill has at most
\* one block; the block comes right after the skill's session.destroy and
\* right before its publish or preview step, with no other skill's review in
\* between, and the text filed is the text of the block.
C17_OneReportBlockBeforePublish ==
    /\ [][ReviewReturns =>
            trace'[Len(trace) + 1] = Entry("REPORT", skills[idx], report, TRUE)]_vars
    /\ [](\A i \in 1..Len(trace) :
            /\ trace[i].op = "REPORT" =>
                  /\ Count("REPORT", trace[i].skill) = 1
                  /\ i > 1
                  /\ trace[i - 1].op = "session.destroy"
                  /\ trace[i - 1].skill = trace[i].skill
                  /\ i < Len(trace)
                  /\ trace[i + 1].op \in PublishOps
                  /\ trace[i + 1].skill = trace[i].skill
                  /\ (trace[i + 1].op = "gh issue create" =>
                         trace[i + 1].text = trace[i].text)
                  /\ \A j \in (i + 1)..Len(trace) :
                         trace[j].op \in {"reviewSkill", "createSession"} =>
                            (j > i + 1 /\ trace[j].skill # trace[i].skill)
            /\ trace[i].op \in PublishOps =>
                  /\ i > 1
                  /\ trace[i - 1].op = "REPORT"
                  /\ trace[i - 1].skill = trace[i].skill)

C17_Witness ==
    /\ pc = "createSession"
    /\ idx = 2
    /\ \E i \in 1..(Len(trace) - 1) :
          /\ trace[i] = Entry("REPORT", skills[1], "r1", TRUE)
          /\ trace[i + 1].op = "gh issue create"
          /\ trace[i + 1].text = "r1"

IsSet(v) == v # <<>>

NonEmpty(v) == v # <<>> /\ v[1] # ""

GhCalls == {i \in 1..Len(trace) : trace[i].op = "gh issue create"}

\* without --dry-run every report block is followed by a `gh issue create`
GhAlwaysInvoked ==
    \A i \in 1..Len(trace) :
        (trace[i].op = "REPORT" /\ ~includes(args, DryRunFlag)) =>
            (i < Len(trace) /\ trace[i + 1].op = "gh issue create")

\* the credential gh ends up with: an empty one is as good as none
Cred(v) == IF v = <<"">> THEN <<>> ELSE v

\* C18 as stated, a variable being present when it is set: every `gh issue
\* create` carries GH_PAT when GH_PAT is set, GH_TOKEN when only GH_TOKEN is
\* set, and no credential when neither is set, and gh is invoked in each case.
C18_FirstPresentWins ==
    /\ \A i \in GhCalls :
          /\ IsSet(env.GH_PAT) => Cred(trace[i].token) = Cred(env.GH_PAT)
          /\ (~IsSet(env.GH_PAT) /\ IsSet(env.GH_TOKEN)) =>
                Cred(trace[i].token) = Cred(env.GH_TOKEN)
          /\ (~IsSet(env.GH_PAT) /\ ~IsSet(env.GH_TOKEN)) => trace[i].token = <<>>
    /\ GhAlwaysInvoked

\* C18, amended: the same with a variable being present when it is set to a
\* non-empty value.
C18_FirstNonEmptyWins ==
    /\ \A i \in GhCalls :
          /\ NonEmpty(env.GH_PAT) => trace[i].token = env.GH_PAT
          /\ (~NonEmpty(env.GH_PAT) /\ NonEmpty(env.GH_TOKEN)) =>
                trace[i].token = env.GH_TOKEN
          /\ (~NonEmpty(env.GH_PAT) /\ ~NonEmpty(env.GH_TOKEN)) => trace[i].token = <<>>
    /\ GhAlwaysInvoked

C18_Witness ==
    /\ env = [GH_PAT |-> <<"pat">>, GH_TOKEN |-> <<"tok">>]
    /\ \E i \in GhCalls : trace[i].token = <<"pat">>

StopCalls == {i \in 1..Len(trace) : trace[i].op = "client.stop"}

\* client.start has rejected
StartRejected == pc = "rejected" /\ idx = 0 /\ fs.ok

\* a session whose send has resolved comes to emit session.idle
IdleArrives == [](pc = "awaitDone" => <>done.settled)

\* the run is over: every selected skill has been attempted once, in order,
\* and then client.stop has been called, once
RunOver ==
    /\ pc \in {"done", "rejected"}
    /\ Attempted = skills
    /\ Cardinality(StopCalls) = 1
    /\ \A i \in StopCalls : \A j \in 1..Len(trace) :
          trace[j].op \in {"reviewSkill", "REPORT", "[Error] Failed to review skill"} => j < i

FailureOps == {"session.send rejected", "session.destroy rejected"}

\* createSession, send, the wait for idle and destroy have all succeeded
\* for the skill before position i of the trace
AllStagesSucceeded(skill, i) ==
    /\ \E j \in 1..(i - 1) :
          trace[j].op = "createSession" /\ trace[j].skill = skill /\ trace[j].ok
    /\ \E j \in 1..(i - 1) : trace[j].op = "session.send" /\ trace[j].skill = skill
    /\ \E j \in 1..(i - 1) : trace[j].op = "session.destroy" /\ trace[j].skill = skill
    /\ \A j \in 1..Len(trace) :
          trace[j].skill = skill =>
              /\ trace[j].op \notin FailureOps
              /\ trace[j].op # "[Error] Failed to review skill"
              /\ trace[j].ok \/ trace[j].op \notin {"createSession", "session.destroy"}

\* C20: a report block, a preview or an issue is written for a skill only
\* when createSession, send, the wait for idle and destroy all succeeded for
\* it; when session.destroy rejects, after the idle, the skill is logged as
\* a failed review and gets no report block, no preview and no issue.
C20_ReportOnlyAfterDestroySucceeds ==
    \A i \in 1..Len(trace) :
        /\ trace[i].op \in {"REPORT"} \cup PublishOps =>
              AllStagesSucceeded(trace[i].skill, i)
        /\ trace[i].op = "session.destroy rejected" =>
              /\ i > 1
              /\ trace[i - 1].op = "session.destroy"
              /\ trace[i - 1].skill = trace[i].skill
              /\ i < Len(trace)
              /\ trace[i + 1].op = "[Error] Failed to review skill"
              /\ trace[i + 1].skill = trace[i].skill
              /\ \A j \in 1..Len(trace) :
                    trace[j].skill = trace[i].skill =>
                        trace[j].op \notin {"REPORT"} \cup PublishOps

C20_Witness ==
    /\ pc = "done"
    /\ Len(skills) = 2
    /\ HasEntry("session.destroy rejected", skills[1])
    /\ HasEntry("[Error] Failed to review skill", skills[1])
    /\ ~HasEntry("REPORT", skills[1])
    /\ HasEntry("REPORT", skills[2])

====
